---- MODULE Spec2Model ----
(***************************************************************************)
(* Model of the photo overlay batch tool (app.py, _testing_image_overlay). *)
(*                                                                         *)
(* Conventions of the model                                                *)
(*   - a decimal coordinate is an integer count of 1e-5 degrees (the code  *)
(*     rounds every decoded coordinate to 5 decimal places);               *)
(*   - a bearing is an integer number of degrees; sines and cosines are    *)
(*     taken from a one-degree table scaled by 1000;                       *)
(*   - a Python float that the code obtains by a division is kept as an    *)
(*     exact reduced fraction [n, d];                                      *)
(*   - the result of a call that may raise is Ok(v) or Raise(e); Python's  *)
(*     None is NoneValue, a returned tuple t is Some(t).                   *)
(***************************************************************************)
EXTENDS Integers, Sequences, FiniteSets, TLC

VARIABLES
    driver,   \* the batch-driver entry point that is running ("none" outside Spec)
    sheet,    \* the rows of the spreadsheet, in order
    idx,      \* the row the for-loop visits next (1-based)
    status,   \* "running", "done" (end of sheet reached) or "aborted" (exception left the loop)
    visited,  \* the indices of the rows visited so far, in order
    calls,    \* the renderer invocations so far, in order
    files,    \* the output files on disk: path -> what the last save wrote
    fn,       \* function harness: the function applied ("none" before the call)
    arg,      \* function harness: its input
    ret       \* function harness: its outcome

vars == <<driver, sheet, idx, status, visited, calls, files, fn, arg, ret>>

driverVars == <<driver, sheet, idx, status, visited>>
harnessVars == <<fn, arg, ret>>

(***************************************************************************)
(* Outcomes of a call.                                                     *)
(***************************************************************************)
Ok(v) == [ok |-> TRUE, val |-> v]
Raise(e) == [ok |-> FALSE, exc |-> e]
NoneValue == [none |-> TRUE]
Some(t) == [none |-> FALSE, tuple |-> t]

(***************************************************************************)
(* Integer helpers.                                                        *)
(***************************************************************************)
Abs(n) == IF n < 0 THEN -n ELSE n

Min(a, b) == IF a < b THEN a ELSE b

Max(a, b) == IF a > b THEN a ELSE b

RECURSIVE Gcd(_, _)
Gcd(a, b) == IF b = 0 THEN a ELSE Gcd(b, a % b)

\* n/d rounded to the nearest integer, ties to the even one (Python's round);
\* d > 0.
RoundHalfEven(n, d) ==
    LET q == n \div d
        r == n % d
    IN  IF 2 * r < d THEN q
        ELSE IF 2 * r > d THEN q + 1
        ELSE IF q % 2 = 0 THEN q ELSE q + 1

(***************************************************************************)
(* Geodesy helper: calculate_initial_compass_bearing.                      *)
(***************************************************************************)
\* sin of 0..90 degrees, times 1000.
SinTable ==
    << 0, 17, 35, 52, 70, 87, 105, 122, 139, 156, 174, 191, 208,
       225, 242, 259, 276, 292, 309, 326, 342, 358, 375, 391, 407, 423,
       438, 454, 469, 485, 500, 515, 530, 545, 559, 574, 588, 602, 616,
       629, 643, 656, 669, 682, 695, 707, 719, 731, 743, 755, 766, 777,
       788, 799, 809, 819, 829, 839, 848, 857, 866, 875, 883, 891, 899,
       906, 914, 921, 927, 934, 940, 946, 951, 956, 961, 966, 970, 974,
       978, 982, 985, 988, 990, 993, 995, 996, 998, 999, 999, 1000, 1000 >>

\* math.radians: the angle of a coordinate, at the table's resolution (the
\* nearest whole degree of a value given in 1e-5 degrees).
Radians(c) == RoundHalfEven(c, 100000)

\* math.sin of an angle in whole degrees, times 1000.
Sin(a) ==
    LET m == a % 360
    IN  IF m <= 90 THEN SinTable[m + 1]
        ELSE IF m <= 180 THEN SinTable[180 - m + 1]
        ELSE IF m <= 270 THEN -SinTable[m - 180 + 1]
        ELSE -SinTable[360 - m + 1]

\* math.cos of an angle in whole degrees, times 1000.
Cos(a) == Sin(a + 90)

\* math.atan2(x, y) followed by math.degrees: the angle in -179..180 of the
\* direction with sine component x and cosine component y; atan2(0, 0) is 0.
Atan2Degrees(x, y) ==
    IF x = 0 /\ y = 0 THEN 0
    ELSE LET ax == Abs(x)
             ay == Abs(y)
             ok == {t \in 0..90 : Sin(t) * ay <= Cos(t) * ax}
             t0 == CHOOSE t \in ok : \A u \in ok : u <= t
         IN  IF x >= 0
             THEN (IF y >= 0 THEN t0 ELSE 180 - t0)
             ELSE (IF y >= 0 THEN -t0 ELSE IF t0 = 0 THEN 180 ELSE t0 - 180)

\* The final normalisation of the bearing: (bearing + 360) % 360.
NormalizeNone(b) == b

Normalize(b) == (b + 360) % 360

calculate_initial_compass_bearing(lat1, lon1, lat2, lon2) ==
    LET rlat1 == Radians(lat1)
        rlon1 == Radians(lon1)
        rlat2 == Radians(lat2)
        rlon2 == Radians(lon2)
        dlon == rlon2 - rlon1
        x == Sin(dlon) * Cos(rlat2)
        y == (Cos(rlat1) * Sin(rlat2) * 1000
                - Sin(rlat1) * Cos(rlat2) * Cos(dlon)) \div 1000
        bearing == Atan2Degrees(x, y)
    IN  Normalize(bearing)

(***************************************************************************)
(* Geodesy helper: _rational_to_float and get_decimal_from_dms.            *)
(*                                                                         *)
(* A DMS component is a plain number [plain |-> n] or a pair               *)
(* [num |-> n, den |-> d], as EXIF readers deliver them.                   *)
(***************************************************************************)
Plain(n) == [plain |-> n]
Pair(n, d) == [num |-> n, den |-> d]
IsPair(value) == "num" \in DOMAIN value

\* The float n/d as a reduced fraction with a positive denominator.
Fraction(n, d) ==
    LET g == Gcd(Abs(n), Abs(d))
        s == IF d < 0 THEN -1 ELSE 1
    IN  [n |-> s * (n \div g), d |-> s * (d \div g)]

\* try: num, den = value; return num / den
\* except (TypeError, ValueError): return float(value)
\* A zero denominator raises ZeroDivisionError, which the except clause does
\* not name.
_rational_to_float(value) ==
    IF IsPair(value)
    THEN IF value.den = 0 THEN Raise("ZeroDivisionError")
         ELSE Ok(Fraction(value.num, value.den))
    ELSE Ok(Fraction(value.plain, 1))

\* The five decimal digits of n/d (0 <= n < d), with what is left over:
\* k digits of long division.
RECURSIVE Digits(_, _, _, _)
Digits(n, d, k, acc) ==
    IF k = 0 THEN [q |-> acc, r |-> n]
    ELSE Digits((n * 10) % d, d, k - 1, acc * 10 + ((n * 10) \div d))

\* round(f, 5) of the non-negative fraction f, in units of 1e-5.
Round5(f) ==
    LET whole == f.n \div f.d
        part == Digits(f.n % f.d, f.d, 5, 0)
        up == \/ 2 * part.r > f.d
              \/ 2 * part.r = f.d /\ part.q % 2 = 1
    IN  whole * 100000 + part.q + (IF up THEN 1 ELSE 0)

\* a/b + c/d, over the least common denominator
FracAdd(f, g) ==
    LET l == (f.d \div Gcd(f.d, g.d)) * g.d
    IN  Fraction(f.n * (l \div f.d) + g.n * (l \div g.d), l)

\* f / k for a positive integer k
FracDiv(f, k) == Fraction(f.n, f.d * k)

get_decimal_from_dms(dms) ==
    LET degrees == _rational_to_float(dms[1])
        minutes == _rational_to_float(dms[2])
        seconds == _rational_to_float(dms[3])
    IN  IF ~degrees.ok THEN degrees
        ELSE IF ~minutes.ok THEN minutes
        ELSE IF ~seconds.ok THEN seconds
        ELSE Ok(Round5(FracAdd(degrees.val,
                   FracAdd(FracDiv(minutes.val, 60), FracDiv(seconds.val, 3600)))))

(***************************************************************************)
(* Metadata extractor: get_comments_info.                                  *)
(*                                                                         *)
(* An image file is [openable, exif, size]: exif is [present |-> FALSE]    *)
(* (no EXIF block) or [present |-> TRUE, tags |-> d], d the dictionary     *)
(* img._getexif() returns, a function from tag numbers to values; the GPS  *)
(* IFD is such a dictionary too; a timestamp is a sequence of characters.  *)
(***************************************************************************)
GPS_TAG == 34853

DATETIME_ORIGINAL == 36867

\* str.split(" "): the pieces between single spaces.
RECURSIVE SplitSpace(_, _, _)
SplitSpace(s, cur, acc) ==
    IF s = <<>> THEN Append(acc, cur)
    ELSE IF Head(s) = " " THEN SplitSpace(Tail(s), <<>>, Append(acc, cur))
    ELSE SplitSpace(Tail(s), Append(cur, Head(s)), acc)

\* str.replace(":", "-")
ReplaceColon(s) == [i \in DOMAIN s |-> IF s[i] = ":" THEN "-" ELSE s[i]]

\* The arguments of the call to calculate_initial_compass_bearing.
bearing_call_self(cord1, cord2) ==
    [lat1 |-> cord1, lon1 |-> cord2, lat2 |-> cord1, lon2 |-> cord2]

bearing_call(cord1, cord2) ==
    [lat1 |-> cord1, lon1 |-> cord2, lat2 |-> 0, lon2 |-> 0]

NotCalled == [called |-> FALSE]

\* get_comments_info, with the arguments of the bearing call it made:
\* [result, bearing]. result is Raise(e), Ok(NoneValue) or Ok(Some(5-tuple)).
get_comments_info_run(image) ==
    IF ~image.openable
    THEN [result |-> Raise("FileNotFoundError"), bearing |-> NotCalled]
    ELSE
    LET info == IF image.exif.present THEN image.exif.tags ELSE <<>>
    IN  IF GPS_TAG \notin DOMAIN info \/ DATETIME_ORIGINAL \notin DOMAIN info
        THEN [result |-> Ok(NoneValue), bearing |-> NotCalled]
        ELSE
        LET data_dict == info[GPS_TAG]
        IN  IF 2 \notin DOMAIN data_dict
            THEN [result |-> Raise("KeyError"), bearing |-> NotCalled]
            ELSE
            LET cord1 == get_decimal_from_dms(data_dict[2])
            IN  IF ~cord1.ok THEN [result |-> cord1, bearing |-> NotCalled]
                ELSE IF 4 \notin DOMAIN data_dict
                THEN [result |-> Raise("KeyError"), bearing |-> NotCalled]
                ELSE
                LET cord2 == get_decimal_from_dms(data_dict[4])
                IN  IF ~cord2.ok THEN [result |-> cord2, bearing |-> NotCalled]
                    ELSE
                    LET parts == SplitSpace(info[DATETIME_ORIGINAL], <<>>, <<>>)
                        date_month_year == ReplaceColon(parts[1])
                        hour_min_second == IF Len(parts) > 1 THEN parts[2] ELSE <<>>
                        bc == bearing_call(cord1.val, cord2.val)
                        angle == calculate_initial_compass_bearing(
                                     bc.lat1, bc.lon1, bc.lat2, bc.lon2)
                    IN  [result |-> Ok(Some(<<cord1.val, cord2.val, date_month_year,
                                              hour_min_second, angle>>)),
                         bearing |-> [called |-> TRUE] @@ bc]

get_comments_info(image) == get_comments_info_run(image).result

(***************************************************************************)
(* Overlay renderer: the shading mask of draw_bottom_left_box.             *)
(***************************************************************************)
\* max(0, min(int(transparency), 255))
max_alpha_of(transparency) == Max(0, Min(transparency, 255))

\* box_width = base_width // 3
box_width_of(base_width) == base_width \div 3

\* full_shade_end = int(box_width * 0.75)
full_shade_end_of(box_width) == (3 * box_width) \div 4

\* gradient_width = max(1, box_width - full_shade_end)
gradient_width_of(box_width) == Max(1, box_width - full_shade_end_of(box_width))

\* The alpha of column i (0-based) in exact arithmetic:
\*   max_alpha                                   if i < full_shade_end
\*   int(max_alpha * (1 - (i - full_shade_end) / gradient_width))   otherwise
mask_alpha_closed(max_alpha, full_shade_end, gradient_width, i) ==
    IF i < full_shade_end THEN max_alpha
    ELSE (max_alpha * (gradient_width - (i - full_shade_end + 1))) \div gradient_width

mask_alpha(max_alpha, full_shade_end, gradient_width, i) ==
    IF i < full_shade_end THEN max_alpha
    ELSE (max_alpha * (gradient_width - (i - full_shade_end))) \div gradient_width

IsPowerOfTwo(n) == \E k \in 0..30 : n = 2 ^ k

\* The columns where binary floating point may put max_alpha * (1 - t) just
\* below the integer it equals in exact arithmetic, so that int() gives one
\* less: t is not 0, t is not a binary fraction, and the exact product is a
\* positive integer (200 * (1 - 4/5) is 39.99999999999999 in Python).
FloatLowerable(max_alpha, full_shade_end, gradient_width, box_width) ==
    {i \in 0..(box_width - 1) :
        /\ i > full_shade_end
        /\ ~IsPowerOfTwo(gradient_width)
        /\ (max_alpha * (gradient_width - (i - full_shade_end))) % gradient_width = 0
        /\ mask_alpha(max_alpha, full_shade_end, gradient_width, i) > 0}

\* The masks the loop over the columns can produce, as sequences of column
\* alphas (column i of the image is element i + 1).
shading_masks(base_width, transparency) ==
    LET box_width == box_width_of(base_width)
        max_alpha == max_alpha_of(transparency)
        full_shade_end == full_shade_end_of(box_width)
        gradient_width == gradient_width_of(box_width)
        low == FloatLowerable(max_alpha, full_shade_end, gradient_width, box_width)
    IN  {[c \in 1..box_width |->
            mask_alpha(max_alpha, full_shade_end, gradient_width, c - 1)
              - (IF (c - 1) \in S THEN 1 ELSE 0)] : S \in SUBSET low}

(***************************************************************************)
(* Inputs of the function harness.                                         *)
(***************************************************************************)
MaxLatSteps == 2
MaxLonSteps == 2
MaxDen == 2
MaxWidth == 30

\* Coordinates in 1e-5 degrees: a grid of 45 degree steps of latitude and 90
\* degree steps of longitude, and one point off the grid.
LatValues == {k * 4500000 : k \in -MaxLatSteps..MaxLatSteps} \cup {3150000}
LonValues == {k * 9000000 : k \in -MaxLonSteps..MaxLonSteps} \cup {11576708}

BearingInputs ==
    [lat1 : LatValues, lon1 : LonValues, lat2 : LatValues, lon2 : LonValues]

\* The representations of the value b, of b + 1/2, and a pair with a zero
\* denominator.
Representations(b) ==
    {Plain(b), Pair(2 * b + 1, 2), Pair(b, 0)} \cup {Pair(b * d, d) : d \in 1..MaxDen}

DmsInputs ==
    {<<d, m, s>> : d \in Representations(31) \cup Representations(115),
                   m \in Representations(30) \cup Representations(46),
                   s \in Representations(0) \cup Representations(7)}

\* The value a representation denotes, when it denotes one.
Denotes(c) == IF IsPair(c) THEN c.den # 0 ELSE TRUE
Value(c) == IF IsPair(c) THEN Fraction(c.num, c.den) ELSE Fraction(c.plain, 1)

TsFull == <<"2", "5", ":", "1", "1", ":", "2", "4", " ", "1", "0", ":", "2", "3">>
TsDateOnly == <<"2", "5", ":", "1", "1", ":", "2", "4">>
Timestamps == {TsFull, TsDateOnly}

LatPairs == <<Pair(31, 1), Pair(30, 1), Pair(0, 1)>>
LonPairs == <<Pair(115, 1), Pair(46, 1), Pair(150, 100)>>
LatPlain == <<Plain(32), Plain(15), Plain(0)>>
ZeroDms == <<Plain(0), Plain(0), Plain(0)>>
LatZeroDen == <<Pair(31, 1), Pair(30, 1), Pair(0, 0)>>

GpsIfds ==
    { (2 :> LatPairs) @@ (4 :> LonPairs),
      (2 :> LatPlain) @@ (4 :> LonPairs),
      (2 :> ZeroDms) @@ (4 :> ZeroDms),
      (2 :> LatZeroDen) @@ (4 :> LonPairs),
      (4 :> LonPairs),
      (2 :> LatPairs),
      (0 :> <<2, 0, 0, 0>>) }

Entry(present, k, v) == IF present THEN (k :> v) ELSE <<>>

Exifs ==
    {[present |-> FALSE]} \cup
    {[present |-> TRUE, tags |-> Entry(TRUE, GPS_TAG, g) @@ Entry(TRUE, DATETIME_ORIGINAL, t)] :
        g \in GpsIfds, t \in Timestamps} \cup
    {[present |-> TRUE, tags |-> Entry(TRUE, GPS_TAG, g)] : g \in GpsIfds} \cup
    {[present |-> TRUE, tags |-> Entry(TRUE, DATETIME_ORIGINAL, t)] : t \in Timestamps} \cup
    {[present |-> TRUE, tags |-> <<>>]}

Sizes == {<<48, 36>>, <<36, 48>>}

Images == [openable : BOOLEAN, exif : Exifs, size : Sizes]

Transparencies == {-5, 0, 1, 200, 255, 300}

MaskInputs == [base_width : 3..MaxWidth, transparency : Transparencies]

(***************************************************************************)
(* Overlay renderer: create_standardized_overlay_image and                 *)
(* create_partial_overlay_image.                                           *)
(*                                                                         *)
(* An in-memory picture is its size <<width, height>>.  A render call is   *)
(* the record of the arguments of the Python call.                         *)
(***************************************************************************)
\* Image.new(mode, size, color)
ImageNew(size) == size

\* Image.crop((left, upper, right, lower))
Crop(img, left, upper, right, lower) == <<right - left, lower - upper>>

\* Image.filter(ImageFilter.GaussianBlur(radius)): same size.
Filter(img) == img

\* Image.paste(patch, position): the pasted-into picture keeps its size.
Paste(img, patch) == img

\* Image.alpha_composite(im1, im2): the two must have the same size.
AlphaComposite(im1, im2) ==
    IF im1 = im2 THEN Ok(im1) ELSE Raise("ValueError")

\* box_height = base_height // 12 - base_height / 240 (a float), then
\* int(round(box_height)) in draw_bottom_left_box.
partial_box_height(base_height) ==
    RoundHalfEven(240 * (base_height \div 12) - base_height, 240)

\* f"{glocation}_{component}_{defect_line1}_{defect_line2}_{idd}.png"
combined_image_name_dated(call) ==
    call.glocation \o "_" \o call.component \o "_" \o call.defect_line1
        \o "_" \o call.defect_line2 \o "_" \o ToString(call.idd)
        \o "_" \o ToString(call.angle) \o ".png"

\* A file name of the four text fields only.
combined_image_name_without_id(call) ==
    call.glocation \o "_" \o call.component \o "_" \o call.defect_line1
        \o "_" \o call.defect_line2 \o ".png"

combined_image_name(call) ==
    call.glocation \o "_" \o call.component \o "_" \o call.defect_line1
        \o "_" \o call.defect_line2 \o "_" \o ToString(call.idd) \o ".png"

\* os.path.join(output_folder, combined_image_name)
combined_image_path(call) == call.output_folder \o "/" \o combined_image_name(call)

\* The picture create_standardized_overlay_image composes: lines 137-214.
standardized_combined(image) ==
    LET base == image.size
        overlay_image == ImageNew(base)
    IN  AlphaComposite(base, overlay_image)

\* The picture create_partial_overlay_image composes, draw_bottom_left_box
\* included: lines 244-272 and 409-457.
partial_combined_cropped(image) ==
    LET base_width == image.size[1]
        base_height == image.size[2]
        box_height == partial_box_height(base_height)
        box_width == box_width_of(base_width)
        y_position == base_height - box_height
        blur_crop == Filter(Crop(image.size, 0, y_position, box_width,
                                 y_position + box_height))
        shade == ImageNew(<<box_width, box_height>>)
    IN  AlphaComposite(blur_crop, shade)

partial_combined(image) ==
    LET base_width == image.size[1]
        base_height == image.size[2]
        overlay_image == ImageNew(<<base_width, base_height>>)
        box_height == partial_box_height(base_height)
        box_width == box_width_of(base_width)
        y_position == base_height - box_height
        blur_crop == Filter(Crop(image.size, 0, y_position, box_width,
                                 y_position + box_height))
        base_img == Paste(image.size, blur_crop)
        mask == ImageNew(<<box_width, box_height>>)
        shade == ImageNew(<<box_width, box_height>>)
        overlay_pasted == Paste(overlay_image, shade)
    IN  AlphaComposite(base_img, overlay_pasted)

\* draw_boxes_with_text(y_position, text_lines): one rectangle per entry of
\* text_lines, each base_width // num_boxes wide and box_height high, side
\* by side from the left edge.  A box is [rect, lines] with
\* rect = <<left, top, right, bottom>>.
draw_boxes_with_text(base_width, box_height, y_position, text_lines) ==
    LET num_boxes == Len(text_lines)
        box_width == base_width \div num_boxes
    IN  [i \in 1..num_boxes |->
            [rect |-> <<(i - 1) * box_width, y_position,
                        (i - 1) * box_width + box_width, y_position + box_height>>,
             lines |-> text_lines[i]]]

\* ["DIRECTION", f"{angle:.1f} deg(T)"], [f"{cord1:.5f}°S", f"{cord2:.5f}°E"],
\* ["ACCURACY 10 m", "DATUM WGS84"]: a formatted number is the number with
\* its suffix.
top_boxes_text(call) ==
    << <<"DIRECTION", [number |-> call.angle, suffix |-> " deg(T)"]>>,
       <<[number |-> call.cord1, suffix |-> "S"],
         [number |-> call.cord2, suffix |-> "E"]>>,
       <<"ACCURACY 10 m", "DATUM WGS84">> >>

\* [glocation, component], [defect_line1, defect_line2],
\* [date_month_year, f"{hour_min_second}+10:00"]
bottom_boxes_text(call) ==
    << <<call.glocation, call.component>>,
       <<call.defect_line1, call.defect_line2>>,
       <<call.date_month_year, [text |-> call.hour_min_second, suffix |-> "+10:00"]>> >>

\* The boxes create_standardized_overlay_image draws on the overlay:
\* lines 140, 196-210.
standardized_boxes(call) ==
    LET base_width == call.image.size[1]
        base_height == call.image.size[2]
        box_height == base_height \div 12
    IN  draw_boxes_with_text(base_width, box_height, 0, top_boxes_text(call))
        \o draw_boxes_with_text(base_width, box_height, base_height - box_height,
                                bottom_boxes_text(call))

\* The box draw_bottom_left_box shades and letters: lines 409-413, 457-460.
draw_bottom_left_box(base_width, base_height, box_height, glocation, component) ==
    LET x_position == 0
        box_width == box_width_of(base_width)
        y_position == base_height - box_height
    IN  << [rect |-> <<x_position, y_position,
                       x_position + box_width, y_position + box_height>>,
            lines |-> <<glocation, component>>] >>

\* A partial variant that would draw the top strip as well.
partial_boxes_with_top(call) ==
    LET base_width == call.image.size[1]
        base_height == call.image.size[2]
        box_height == partial_box_height(base_height)
    IN  draw_boxes_with_text(base_width, box_height, 0, top_boxes_text(call))
        \o draw_bottom_left_box(base_width, base_height, box_height,
                                call.glocation, call.component)

\* The boxes create_partial_overlay_image draws: draw_bottom_left_box and
\* nothing else, lines 257-269.
partial_boxes(call) ==
    LET base_width == call.image.size[1]
        base_height == call.image.size[2]
        box_height == partial_box_height(base_height)
    IN  draw_bottom_left_box(base_width, base_height, box_height,
                             call.glocation, call.component)

\* The outcome of a render call: Raise(e), or Ok([path, size, boxes]) after the
\* save.  io_fails is the environment: the font file cannot be loaded, or
\* the output cannot be written.
render(call, io_fails) ==
    IF ~call.image.openable THEN Raise("FileNotFoundError")
    ELSE IF io_fails THEN Raise("OSError")
    ELSE LET combined == IF call.variant = "standardized"
                         THEN standardized_combined(call.image)
                         ELSE partial_combined(call.image)
         IN  IF ~combined.ok THEN combined
             ELSE Ok([path |-> combined_image_path(call), size |-> combined.val,
                      boxes |-> IF call.variant = "standardized"
                                THEN standardized_boxes(call)
                                ELSE partial_boxes(call)])

\* combined_image.save(combined_image_path): the file at the path is
\* created or replaced.  A file is [n, size]: the number of the call that
\* wrote it and the size of the picture.
save_keep_existing(fs, path, content) ==
    IF path \in DOMAIN fs THEN fs ELSE (path :> content) @@ fs

save(fs, path, content) == (path :> content) @@ fs

\* The files after the n-th render call with this outcome.
files_after(fs, n, outcome) ==
    IF outcome.ok
    THEN save(fs, outcome.val.path, [n |-> n, size |-> outcome.val.size])
    ELSE fs

\* The arguments of a render call.
RenderCall(variant, image, geo, key, output_folder) ==
    [variant |-> variant, image |-> image,
     cord1 |-> geo[1], cord2 |-> geo[2], date_month_year |-> geo[3],
     hour_min_second |-> geo[4], angle |-> geo[5],
     glocation |-> key.glocation, component |-> key.component,
     defect_line1 |-> key.defect_line1, defect_line2 |-> key.defect_line2,
     idd |-> key.idd, output_folder |-> output_folder]

\* The five fields the file name is made of.
KeyOf(call) ==
    <<call.glocation, call.component, call.defect_line1, call.defect_line2, call.idd>>

(***************************************************************************)
(* The renderer called directly, a bounded number of times.                *)
(***************************************************************************)
MaxCalls == 2

RenderKeys ==
    [glocation : {"a", "a_b"}, component : {"c", "b_c"},
     defect_line1 : {"x"}, defect_line2 : {"y"}, idd : {3}]
    \cup {[glocation |-> "a", component |-> "c",
           defect_line1 |-> "x", defect_line2 |-> "y", idd |-> 4]}

Folders == {"results", "partial_results"}

GoodExif ==
    [present |-> TRUE,
     tags |-> (GPS_TAG :> ((2 :> LatPairs) @@ (4 :> LonPairs)))
                @@ (DATETIME_ORIGINAL :> TsFull)]

\* The (image, geodata) pairs of the direct calls: the image and all five
\* geodata values differ between the two.
RenderSources ==
    { [image |-> [openable |-> TRUE, exif |-> GoodExif, size |-> <<48, 36>>],
       geo |-> <<3150000, 11576708, <<"2", "5", "-", "1", "1">>, <<"1", "0">>, 285>>],
      [image |-> [openable |-> TRUE, exif |-> [present |-> FALSE], size |-> <<36, 48>>],
       geo |-> <<3225315, 11576708, <<"2", "4", ":", "0", "6">>, <<"2", "4">>, -75>>] }

InitRender ==
    /\ driver = "none"
    /\ sheet = <<>>
    /\ idx = 1
    /\ status = "done"
    /\ visited = <<>>
    /\ calls = <<>>
    /\ files = <<>>
    /\ fn = "none"
    /\ arg = "none"
    /\ ret = "none"

\* One call of a renderer: the call is logged with its outcome, and its
\* output file saved.
Rendered(call, row, source, outcome) ==
    /\ calls' = Append(calls, [call |-> call, row |-> row, source |-> source,
                               outcome |-> outcome])
    /\ files' = files_after(files, Len(calls) + 1, outcome)

CreateStandardizedOverlayImage ==
    /\ driver = "none"
    /\ Len(calls) < MaxCalls
    /\ \E src \in RenderSources, key \in RenderKeys, folder \in Folders,
          io_fails \in BOOLEAN :
          \E call \in {RenderCall("standardized", src.image, src.geo, key, folder)} :
              \E outcome \in {render(call, io_fails)} :
                  Rendered(call, 0, "direct", outcome)
    /\ UNCHANGED <<driverVars, harnessVars>>

CreatePartialOverlayImage ==
    /\ driver = "none"
    /\ Len(calls) < MaxCalls
    /\ \E src \in RenderSources, key \in RenderKeys, folder \in Folders,
          io_fails \in BOOLEAN :
          \E call \in {RenderCall("partial", src.image, src.geo, key, folder)} :
              \E outcome \in {render(call, io_fails)} :
                  Rendered(call, 0, "direct", outcome)
    /\ UNCHANGED <<driverVars, harnessVars>>

NextRender == CreateStandardizedOverlayImage \/ CreatePartialOverlayImage

SpecRender == InitRender /\ [][NextRender]_vars

(***************************************************************************)
(* Batch driver: copy_and_rotate and the three entry points of app.py.     *)
(*                                                                         *)
(* A row is [image, key, rotation]: the file its image_path names, its     *)
(* annotation fields, and its rotation cell, [deg |-> d] for a number and  *)
(* [text |-> t] for a string.                                              *)
(***************************************************************************)
Degrees(d) == [deg |-> d]
Text(t) == [text |-> t]
IsNumber(cell) == "deg" \in DOMAIN cell

\* row['rotation'] != 0
RotationRequested(cell) == IF IsNumber(cell) THEN cell.deg # 0 ELSE TRUE

\* Image.rotate(angle, expand=True) for a multiple of 90 degrees.
RotatedSize(size, deg) == IF deg % 180 = 90 THEN <<size[2], size[1]>> ELSE size

\* copy_and_rotate: the sibling file, with the EXIF block of the original.
copy_and_rotate(image, rotation_angle) ==
    IF ~image.openable THEN Raise("FileNotFoundError")
    ELSE IF ~IsNumber(rotation_angle) THEN Raise("TypeError")
    ELSE Ok([openable |-> TRUE, exif |-> image.exif,
             size |-> RotatedSize(image.size, rotation_angle.deg)])

\* 32.25315, 115.76708, '2024:06:12', '2024:06:12', -75
FallbackDate == <<"2", "0", "2", "4", ":", "0", "6", ":", "1", "2">>

Fallback == <<3225315, 11576708, FallbackDate, FallbackDate, -75>>

\* try: ... = get_comments_info(image_path)   except: ... = <fallback>
\* Unpacking None raises TypeError inside the try, so None ends in the
\* except clause like an exception does.  [geo, source].
extract_no_fallback(image) ==
    LET r == get_comments_info(image)
    IN  IF r.ok /\ ~r.val.none
        THEN Ok([geo |-> r.val.tuple, source |-> "exif"])
        ELSE IF r.ok THEN Raise("TypeError") ELSE r

extract_or_fallback(image) ==
    LET r == get_comments_info(image)
    IN  IF r.ok /\ ~r.val.none
        THEN Ok([geo |-> r.val.tuple, source |-> "exif"])
        ELSE Ok([geo |-> Fallback, source |-> "fallback"])

\* cord1, ... = get_comments_info(image_path), with no try around it: None
\* (TypeError on unpacking) and every exception leave the loop.
extract_or_raise(image) ==
    LET r == get_comments_info(image)
    IN  IF r.ok /\ ~r.val.none
        THEN Ok([geo |-> r.val.tuple, source |-> "exif"])
        ELSE IF r.ok THEN Raise("TypeError") ELSE r

MaxRows == 2

RowKeys ==
    [glocation : {"a"}, component : {"c"},
     defect_line1 : {"x"}, defect_line2 : {"y"}, idd : {3, 4}]

RowImages ==
    { [openable |-> TRUE, exif |-> GoodExif, size |-> <<48, 36>>],
      [openable |-> TRUE, exif |-> [present |-> FALSE], size |-> <<48, 36>>],
      [openable |-> TRUE,
       exif |-> [present |-> TRUE,
                 tags |-> (GPS_TAG :> (0 :> <<2, 0, 0, 0>>))
                            @@ (DATETIME_ORIGINAL :> TsFull)],
       size |-> <<36, 48>>],
      [openable |-> FALSE, exif |-> [present |-> FALSE], size |-> <<36, 48>>] }

Rotations == {Degrees(0), Degrees(90), Text("No EXIF data found")}

Rows == [image : RowImages, key : RowKeys, rotation : Rotations]

Sheets == UNION {[1..n -> Rows] : n \in 1..MaxRows}

Drivers ==
    {"process_images_from_excel", "process_images_from_excel_with_rotation",
     "process_partial_images_from_excel_with_rotation"}

Init ==
    /\ driver \in Drivers
    /\ sheet \in Sheets
    /\ idx = 1
    /\ status = "running"
    /\ visited = <<>>
    /\ calls = <<>>
    /\ files = <<>>
    /\ fn = "none"
    /\ arg = "none"
    /\ ret = "none"

\* The loop after this row's body: on to the next row, or out of the loop
\* at the end of the sheet.
NextRow ==
    /\ idx' = idx + 1
    /\ status' = IF idx = Len(sheet) THEN "done" ELSE "running"

\* An exception leaves the loop and the function.
Abort ==
    /\ idx' = idx
    /\ status' = "aborted"

\* The renderer call that ends a row's body.
RenderRow(variant, image, extracted, output_folder) ==
    \E io_fails \in BOOLEAN :
        \E call \in {RenderCall(variant, image, extracted.geo, sheet[idx].key,
                                output_folder)} :
            \E outcome \in {render(call, io_fails)} :
                /\ Rendered(call, idx, extracted.source, outcome)
                /\ IF outcome.ok THEN NextRow ELSE Abort

\* One row of process_images_from_excel.
ProcessImagesFromExcel ==
    /\ driver = "process_images_from_excel"
    /\ status = "running"
    /\ visited' = Append(visited, idx)
    /\ \E row \in {sheet[idx]} :
          \E extracted \in {extract_or_raise(row.image)} :
              IF ~extracted.ok
              THEN Abort /\ UNCHANGED <<calls, files>>
              ELSE RenderRow("standardized", row.image, extracted.val, "results")
    /\ UNCHANGED <<driver, sheet, harnessVars>>

\* The file the rest of the row's body works on: the rotated sibling when
\* the rotation cell is not 0.
rotated_image(row) ==
    IF RotationRequested(row.rotation)
    THEN copy_and_rotate(row.image, row.rotation)
    ELSE Ok(row.image)

\* One row of the two entry points that rotate first.
RowWithRotation(variant, output_folder) ==
    /\ status = "running"
    /\ visited' = Append(visited, idx)
    /\ \E rotated \in {rotated_image(sheet[idx])} :
          IF ~rotated.ok
          THEN Abort /\ UNCHANGED <<calls, files>>
          ELSE \E extracted \in {extract_or_fallback(rotated.val)} :
                  IF ~extracted.ok
                  THEN Abort /\ UNCHANGED <<calls, files>>
                  ELSE RenderRow(variant, rotated.val, extracted.val, output_folder)
    /\ UNCHANGED <<driver, sheet, harnessVars>>

ProcessImagesFromExcelWithRotation ==
    /\ driver = "process_images_from_excel_with_rotation"
    /\ RowWithRotation("standardized", "results")

ProcessPartialImagesFromExcelWithRotation ==
    /\ driver = "process_partial_images_from_excel_with_rotation"
    /\ RowWithRotation("partial", "partial_results")

Next ==
    \/ ProcessImagesFromExcel
    \/ ProcessImagesFromExcelWithRotation
    \/ ProcessPartialImagesFromExcelWithRotation

Spec == Init /\ [][Next]_vars

(***************************************************************************)
(* Scanner: convert_heic_to_jpg, get_image_rotation and                    *)
(* scan_and_write_excel of app.py.                                         *)
(*                                                                         *)
(* A directory entry is [ext, image]: the extension of the file name as    *)
(* spelled, and the picture in the file.  A worksheet row is               *)
(* [image, key, rotation], with the five annotation cells left empty.      *)
(***************************************************************************)
\* The tag number ExifTags.TAGS gives for 'Orientation'.
ORIENTATION_TAG == 274

\* str.lower() on the extensions of the listing.
Lower(ext) ==
    CASE ext = "JPG" -> "jpg"
      [] ext = "HEIC" -> "heic"
      [] OTHER -> ext

\* rotation_map = {1: 0, 3: 180, 6: 270, 8: 90}; rotation_map.get(orientation, 0)
rotation_map_get(orientation) ==
    CASE orientation = 1 -> 0
      [] orientation = 3 -> 180
      [] orientation = 6 -> 270
      [] orientation = 8 -> 90
      [] OTHER -> 0

\* exif.get(orientation_tag, None): 0 stands for None, which is no key of
\* rotation_map either.
exif_get_orientation(tags) ==
    IF ORIENTATION_TAG \in DOMAIN tags THEN tags[ORIENTATION_TAG] ELSE 0

\* get_image_rotation: "if exif" is false for None and for an empty dict.
get_image_rotation(image) ==
    IF ~image.openable THEN Raise("FileNotFoundError")
    ELSE IF image.exif.present /\ DOMAIN image.exif.tags # {}
         THEN Ok(Degrees(rotation_map_get(exif_get_orientation(image.exif.tags))))
         ELSE Ok(Text("No EXIF data found"))

\* convert_heic_to_jpg: the JPG sibling with the same EXIF block; every
\* exception is caught and printed, and the function then returns None.
convert_heic_to_jpg(file) ==
    IF file.image.openable
    THEN Some([ext |-> "jpg", image |-> file.image])
    ELSE NoneValue

\* The five annotation cells the scanner leaves empty.
EmptyKey ==
    [glocation |-> "", component |-> "", defect_line1 |-> "",
     defect_line2 |-> "", idd |-> ""]

\* The body of the loop for one directory entry: the rows it appends, or
\* the exception that ends the scan.
scan_file(file) ==
    LET converted == IF Lower(file.ext) = "heic"
                     THEN convert_heic_to_jpg(file)
                     ELSE Some(file)
    IN  IF converted.none THEN Raise("AttributeError")
        ELSE LET f == converted.tuple
             IN  IF Lower(f.ext) \in {"jpg", "jpeg"}
                 THEN LET rotation == get_image_rotation(f.image)
                      IN  IF ~rotation.ok THEN rotation
                          ELSE Ok(<<[image |-> f.image, key |-> EmptyKey,
                                     rotation |-> rotation.val]>>)
                 ELSE Ok(<<>>)

MaxFiles == 2

Extensions == {"jpg", "JPG", "jpeg", "heic", "png"}

\* Orientation values of the EXIF standard (1..8) that occur in the map,
\* one that does not, and one outside the standard.
Orientations == {1, 3, 6, 8, 2, 0}

ScanExifs ==
    {[present |-> FALSE], [present |-> TRUE, tags |-> <<>>],
     [present |-> TRUE, tags |-> (DATETIME_ORIGINAL :> TsFull)]}
    \cup {[present |-> TRUE, tags |-> (ORIENTATION_TAG :> o)] : o \in Orientations}

ScanImages ==
    {[openable |-> TRUE, exif |-> e, size |-> <<48, 36>>] : e \in ScanExifs}
    \cup {[openable |-> FALSE, exif |-> [present |-> FALSE], size |-> <<48, 36>>]}

DirectoryEntries == [ext : Extensions, image : ScanImages]

Directories == UNION {[1..n -> DirectoryEntries] : n \in 1..MaxFiles}

ExcelPath == "defects4.xlsx"

InitScan ==
    /\ driver = "scan_and_write_excel"
    /\ arg \in Directories
    /\ sheet = <<>>
    /\ idx = 1
    /\ status = "running"
    /\ visited = <<>>
    /\ calls = <<>>
    /\ files = <<>>
    /\ fn = "none"
    /\ ret = "none"

\* One iteration of "for file in os.listdir(directory)".
ScanFile ==
    /\ driver = "scan_and_write_excel"
    /\ status = "running"
    /\ idx <= Len(arg)
    /\ visited' = Append(visited, idx)
    /\ \E scanned \in {scan_file(arg[idx])} :
          IF scanned.ok
          THEN /\ sheet' = sheet \o scanned.val
               /\ idx' = idx + 1
               /\ status' = "running"
          ELSE /\ status' = "aborted"
               /\ UNCHANGED <<sheet, idx>>
    /\ UNCHANGED <<driver, arg, calls, files, fn, ret>>

\* wb.save(excel_path), after the loop.
SaveWorkbook ==
    /\ driver = "scan_and_write_excel"
    /\ status = "running"
    /\ idx > Len(arg)
    /\ files' = save(files, ExcelPath, sheet)
    /\ status' = "done"
    /\ UNCHANGED <<driver, arg, sheet, idx, visited, calls, fn, ret>>

NextScan == ScanFile \/ SaveWorkbook

SpecScan == InitScan /\ [][NextScan]_vars

(***************************************************************************)
(* The function harness: one call of one function on one input.            *)
(***************************************************************************)
otherVarsIdle ==
    /\ driver = "none"
    /\ sheet = <<>>
    /\ idx = 1
    /\ status = "done"
    /\ visited = <<>>
    /\ calls = <<>>
    /\ files = <<>>

InitFunctions ==
    /\ otherVarsIdle
    /\ fn = "none"
    /\ ret = "none"
    /\ \/ arg \in {[kind |-> "bearing", v |-> b] : b \in BearingInputs}
       \/ arg \in {[kind |-> "dms", v |-> d] : d \in DmsInputs}
       \/ arg \in {[kind |-> "image", v |-> i] : i \in Images}
       \/ arg \in {[kind |-> "mask", v |-> m] : m \in MaskInputs}

CallBearing ==
    /\ fn = "none" /\ arg.kind = "bearing"
    /\ fn' = "calculate_initial_compass_bearing"
    /\ ret' = Ok(calculate_initial_compass_bearing(
                    arg.v.lat1, arg.v.lon1, arg.v.lat2, arg.v.lon2))
    /\ UNCHANGED <<arg, driverVars, calls, files>>

CallDms ==
    /\ fn = "none" /\ arg.kind = "dms"
    /\ fn' = "get_decimal_from_dms"
    /\ ret' = get_decimal_from_dms(arg.v)
    /\ UNCHANGED <<arg, driverVars, calls, files>>

CallGetCommentsInfo ==
    /\ fn = "none" /\ arg.kind = "image"
    /\ fn' = "get_comments_info"
    /\ ret' = get_comments_info_run(arg.v)
    /\ UNCHANGED <<arg, driverVars, calls, files>>

CallShadingMask ==
    /\ fn = "none" /\ arg.kind = "mask"
    /\ fn' = "draw_bottom_left_box"
    /\ \E mask \in shading_masks(arg.v.base_width, arg.v.transparency) :
          ret' = Ok(mask)
    /\ UNCHANGED <<arg, driverVars, calls, files>>

NextFunctions == CallBearing \/ CallDms \/ CallGetCommentsInfo \/ CallShadingMask

SpecFunctions == InitFunctions /\ [][NextFunctions]_vars

(***************************************************************************)
(* Claims about the functions, checked under SpecFunctions.                *)
(***************************************************************************)
CalledGetCommentsInfo == fn = "get_comments_info" /\ arg.v.openable

\* The tags of the image the extractor was applied to.
InfoOfArg == IF arg.v.exif.present THEN arg.v.exif.tags ELSE <<>>

FieldMissing ==
    GPS_TAG \notin DOMAIN InfoOfArg \/ DATETIME_ORIGINAL \notin DOMAIN InfoOfArg

\* C3: get_comments_info returns None if and only if the GPS field (34853) or
\* the original-timestamp field (36867) is missing, and returns a 5-tuple
\* whenever both fields are present.
C3_NoneIffFieldMissing ==
    CalledGetCommentsInfo =>
        /\ ret.result.ok
        /\ ret.result.val.none <=> FieldMissing
        /\ ~FieldMissing => Len(ret.result.val.tuple) = 5

\* C4 as claimed: the bearing call has the decoded coordinate as both
\* endpoints, (lat2, lon2) = (lat1, lon1).
C4_SelfBearing ==
    (CalledGetCommentsInfo /\ ret.bearing.called) =>
        /\ ret.bearing.lat2 = ret.bearing.lat1
        /\ ret.bearing.lon2 = ret.bearing.lon1

\* C4 as amended: whenever the extractor returns a tuple it has called the
\* bearing function with the decoded (latitude, longitude) as (lat1, lon1)
\* and the fixed point (0.0, 0.0) as (lat2, lon2).
C4_BearingToOrigin ==
    (CalledGetCommentsInfo /\ ret.result.ok /\ ~ret.result.val.none) =>
        /\ ret.bearing.called
        /\ ret.bearing.lat1 = ret.result.val.tuple[1]
        /\ ret.bearing.lon1 = ret.result.val.tuple[2]
        /\ ret.bearing.lat2 = 0
        /\ ret.bearing.lon2 = 0

\* A tuple was returned for an image whose decoded coordinate is not (0, 0).
C4_Witness ==
    /\ CalledGetCommentsInfo
    /\ ret.bearing.called
    /\ ret.bearing.lat1 # 0
    /\ ret.bearing.lon1 # 0
    /\ ret.result.val.tuple[5] # 0

\* C5: calculate_initial_compass_bearing returns, for every pair of points,
\* a value b with 0 <= b < 360, the pair (0,0) -> (0,0) and every pair of
\* identical points included.
C5_BearingInRange ==
    fn = "calculate_initial_compass_bearing" =>
        /\ ret.ok
        /\ 0 <= ret.val
        /\ ret.val < 360

\* The bearing of a point other than (0,0) to itself was computed.
C5_Witness ==
    /\ fn = "calculate_initial_compass_bearing"
    /\ arg.v.lat1 = arg.v.lat2 /\ arg.v.lon1 = arg.v.lon2
    /\ arg.v.lat1 # 0 /\ arg.v.lon1 # 0
    /\ ret.ok

\* C6: get_decimal_from_dms converts every representation without raising,
\* to degrees + minutes/60 + seconds/3600 rounded to 5 decimal places of the
\* values the components denote, whether plain numbers or pairs; (31, 30, 0)
\* in either representation gives 31.5.
C6_DmsEveryRepresentation ==
    fn = "get_decimal_from_dms" =>
        /\ ret.ok
        /\ ret.val = Round5(FracAdd(Value(arg.v[1]),
                         FracAdd(FracDiv(Value(arg.v[2]), 60),
                                 FracDiv(Value(arg.v[3]), 3600))))
        /\ arg.v \in {<<Plain(31), Plain(30), Plain(0)>>,
                       <<Pair(31, 1), Pair(30, 1), Pair(0, 1)>>} => ret.val = 3150000

MaskCalled == fn = "draw_bottom_left_box"

\* The alpha of the leftmost and of the rightmost column of the mask.
Leftmost == ret.val[1]
Rightmost == ret.val[Len(ret.val)]

\* C7 as claimed: for every box width >= 1 the leftmost column has the max
\* alpha, and the rightmost column a fraction of it, never the max alpha
\* itself when the max alpha is positive.
C7_RightmostFaded ==
    MaskCalled =>
        LET max_alpha == max_alpha_of(arg.v.transparency)
        IN  /\ Leftmost = max_alpha
            /\ max_alpha > 0 => Rightmost < max_alpha

\* C7 as amended: the leftmost column has the max alpha for every box width;
\* the rightmost column has at most max_alpha / gradient_width, where
\* gradient_width = max(1, box_width - int(0.75 * box_width)): at most half
\* the max alpha from box width 5 on (image width >= 15), and the max alpha
\* itself for box widths 1 to 4.
C7_RightmostByGradientWidth ==
    MaskCalled =>
        LET max_alpha == Max(0, Min(arg.v.transparency, 255))
            box_width == arg.v.base_width \div 3
            gradient_width == Max(1, box_width - ((3 * box_width) \div 4))
        IN  /\ Len(ret.val) = box_width
            /\ Leftmost = max_alpha
            /\ Rightmost * gradient_width <= max_alpha
            /\ box_width >= 5 => 2 * Rightmost <= max_alpha
            /\ box_width <= 4 => Rightmost = max_alpha

\* A mask with a fading rightmost column, and the configured alpha of 200.
C7_Witness ==
    /\ MaskCalled
    /\ arg.v.transparency = 200
    /\ Len(ret.val) >= 5
    /\ Leftmost = 200
    /\ Rightmost > 0
    /\ Rightmost < 200

(***************************************************************************)
(* Claims about the renderer, checked under SpecRender.                    *)
(***************************************************************************)
Saved(i) == calls[i].outcome.ok
PathOf(i) == calls[i].outcome.val.path
SameKey(i, j) ==
    /\ calls[i].call.output_folder = calls[j].call.output_folder
    /\ KeyOf(calls[i].call) = KeyOf(calls[j].call)

\* Two saved calls that agree on the output folder and on (location,
\* component, defect_line1, defect_line2, id) wrote to the same path.
SameKeySamePath ==
    \A i \in DOMAIN calls, j \in DOMAIN calls :
        (Saved(i) /\ Saved(j) /\ SameKey(i, j)) => PathOf(i) = PathOf(j)

\* C8 as claimed: the path is a function of the folder and the key, and
\* the file at the path of a key holds the result of the last call
\* rendered with that key.
C8_FileOfLastCallWithKey ==
    /\ SameKeySamePath
    /\ \A i \in DOMAIN calls :
          (Saved(i) /\ \A j \in DOMAIN calls : (j > i /\ Saved(j)) => ~SameKey(i, j))
              => /\ PathOf(i) \in DOMAIN files
                 /\ files[PathOf(i)].n = i

\* C8 as amended: the path is a function of the folder and the key, and
\* the file at a path holds the result of the last call that saved to that
\* path, which may carry another key with the same underscore-joined name.
C8_FileOfLastCallToPath ==
    /\ SameKeySamePath
    /\ \A i \in DOMAIN calls :
          (Saved(i) /\ \A j \in DOMAIN calls : (j > i /\ Saved(j)) => PathOf(j) # PathOf(i))
              => /\ PathOf(i) \in DOMAIN files
                 /\ files[PathOf(i)].n = i
    /\ \A p \in DOMAIN files :
          /\ files[p].n \in DOMAIN calls
          /\ Saved(files[p].n)
          /\ PathOf(files[p].n) = p

\* Two calls with the same key and folder, but another variant, image,
\* coordinates, date, time and bearing, both saved: the file is the second's.
C8_Witness ==
    /\ Len(calls) = 2
    /\ Saved(1) /\ Saved(2)
    /\ SameKey(1, 2)
    /\ calls[1].call.variant # calls[2].call.variant
    /\ calls[1].call.image # calls[2].call.image
    /\ calls[1].call.angle # calls[2].call.angle
    /\ files[PathOf(1)].n = 2

\* C9: every render call, of either variant, that opens its image and meets
\* no I/O failure saves a picture whose width and height are those of the
\* input image.
C9_OutputSizeIsInputSize ==
    /\ \A i \in DOMAIN calls :
          IF Saved(i)
          THEN calls[i].outcome.val.size = calls[i].call.image.size
          ELSE calls[i].outcome.exc \in {"FileNotFoundError", "OSError"}
    /\ \A p \in DOMAIN files :
          files[p].size = calls[files[p].n].call.image.size

\* Both variants have saved a picture, of a landscape and of a portrait image.
C9_Witness ==
    /\ Len(calls) = 2
    /\ Saved(1) /\ Saved(2)
    /\ calls[1].call.variant = "standardized"
    /\ calls[2].call.variant = "partial"
    /\ calls[1].call.image.size # calls[2].call.image.size
    /\ PathOf(1) # PathOf(2)
    /\ files[PathOf(2)].size = calls[2].call.image.size

(***************************************************************************)
(* Claims about the batch driver, checked under Spec.                      *)
(***************************************************************************)
PlainDriver == driver = "process_images_from_excel"

\* The file the extractor is applied to in row k.
ImageSeen(k) == IF PlainDriver THEN Ok(sheet[k].image) ELSE rotated_image(sheet[k])

ExtractionFails(image) ==
    LET r == get_comments_info(image)
    IN  ~r.ok \/ r.val.none

CallsOfRow(k) == {i \in DOMAIN calls : calls[i].row = k}

GeoOf(call) ==
    <<call.cord1, call.cord2, call.date_month_year, call.hour_min_second, call.angle>>

\* C1: in every entry point, a row whose metadata extraction fails (None or
\* an exception) is rendered with the fallback tuple
\* (32.25315, 115.76708, '2024:06:12', '2024:06:12', -75).
C1_FallbackInEveryEntryPoint ==
    \A v \in DOMAIN visited :
        LET k == visited[v]
        IN  (ImageSeen(k).ok /\ ExtractionFails(ImageSeen(k).val))
                => \E i \in CallsOfRow(k) :
                      GeoOf(calls[i].call) =
                          <<3225315, 11576708, FallbackDate, FallbackDate, -75>>

\* C2 as claimed: whatever fails in a row, the loop goes on: once the driver
\* has stopped, every row of the sheet has been visited, in order.  Stated
\* for the two entry points that catch a failed extraction, so that what
\* refutes it is a failure of the rotation or of the render step.
C2_EveryRowVisited ==
    (~PlainDriver /\ status # "running") => visited = [k \in 1..Len(sheet) |-> k]

\* The row at which the loop was left.
LastVisited == visited[Len(visited)]

\* C2 as amended: the rows are visited in spreadsheet order, the driver
\* ends at the end of the sheet when no row's body raises, and in the two
\* entry points with rotation a failed metadata extraction does not stop
\* it (the row is rendered with the fallback); an exception of the rotation
\* step or of the render step (in process_images_from_excel, of the
\* extraction too) leaves the loop at that row, and no later row is visited.
C2_VisitedUntilARowRaises ==
    /\ visited = [k \in 1..Len(visited) |-> k]
    /\ status = "running" => idx = Len(visited) + 1 /\ idx <= Len(sheet)
    /\ status = "done" => Len(visited) = Len(sheet)
    /\ status = "aborted" =>
          /\ idx = LastVisited
          /\ \/ ~ImageSeen(LastVisited).ok
             \/ \E i \in CallsOfRow(LastVisited) : ~Saved(i)
             \/ PlainDriver /\ ExtractionFails(ImageSeen(LastVisited).val)
    /\ \A v \in DOMAIN visited :
          (~PlainDriver /\ ImageSeen(visited[v]).ok)
              => \E i \in CallsOfRow(visited[v]) :
                    calls[i].source = (IF ExtractionFails(ImageSeen(visited[v]).val)
                                       THEN "fallback" ELSE "exif")

\* A sheet of two rows was processed to its end although the extraction
\* failed in the first row.
C2_Witness ==
    /\ status = "done"
    /\ Len(sheet) = 2
    /\ visited = <<1, 2>>
    /\ ExtractionFails(ImageSeen(1).val)
    /\ calls[1].source = "fallback"
    /\ calls[2].row = 2

\* C10: the bearing of every record the driver hands to the renderer is a
\* number of degrees from 0 to 360, from the extraction or from the fallback.
C10_BearingOfRecordInRange ==
    \A i \in DOMAIN calls :
        calls[i].row > 0 => (0 <= calls[i].call.angle /\ calls[i].call.angle <= 360)


(***************************************************************************)
(* Claims about the scanner, checked under SpecScan.                       *)
(***************************************************************************)
QuarterTurns == {Degrees(0), Degrees(90), Degrees(180), Degrees(270)}

\* C11 as stated: every rotation cell the scanner writes, for an image with
\* or without EXIF data, is one of 0, 90, 180, 270.
C11_RotationHintIsQuarterTurn ==
    driver = "scan_and_write_excel" =>
        \A k \in DOMAIN sheet : sheet[k].rotation \in QuarterTurns


(***************************************************************************)
(* Claims about the boxes of the two variants, checked under SpecRender.   *)
(***************************************************************************)
BoxesOf(i) == calls[i].outcome.val.boxes
WidthOfImage(i) == calls[i].call.image.size[1]
HeightOfImage(i) == calls[i].call.image.size[2]

\* The first three boxes are the top strip: three boxes a third of the
\* image wide, side by side from the left edge, with their top edge at the
\* image top, lettered direction+bearing, coordinates, accuracy/datum.
HasTopStrip(i) ==
    /\ Len(BoxesOf(i)) >= 3
    /\ \A k \in 1..3 :
          /\ BoxesOf(i)[k].rect[1] = (k - 1) * (WidthOfImage(i) \div 3)
          /\ BoxesOf(i)[k].rect[2] = 0
          /\ BoxesOf(i)[k].rect[3] - BoxesOf(i)[k].rect[1] = WidthOfImage(i) \div 3
    /\ BoxesOf(i)[1].lines[1] = "DIRECTION"
    /\ BoxesOf(i)[1].lines[2].number = calls[i].call.angle
    /\ BoxesOf(i)[2].lines[1].number = calls[i].call.cord1
    /\ BoxesOf(i)[2].lines[2].number = calls[i].call.cord2
    /\ BoxesOf(i)[3].lines = <<"ACCURACY 10 m", "DATUM WGS84">>

\* The box is a third of the image wide and ends at the image bottom.
AtBottom(i, box, k) ==
    /\ box.rect[1] = (k - 1) * (WidthOfImage(i) \div 3)
    /\ box.rect[3] - box.rect[1] = WidthOfImage(i) \div 3
    /\ box.rect[4] = HeightOfImage(i)
    /\ box.rect[2] < box.rect[4]

\* The boxes after the top strip are the variant's bottom strip.
HasBottomStripAfter(i, n) ==
    IF calls[i].call.variant = "standardized"
    THEN /\ Len(BoxesOf(i)) = n + 3
         /\ \A k \in 1..3 : AtBottom(i, BoxesOf(i)[n + k], k)
    ELSE /\ Len(BoxesOf(i)) = n + 1
         /\ AtBottom(i, BoxesOf(i)[n + 1], 1)
         /\ BoxesOf(i)[n + 1].lines
               = <<calls[i].call.glocation, calls[i].call.component>>

\* C12 as stated: the output of either variant carries the top strip of
\* three boxes in addition to the variant's bottom strip.
C12_TopStripInBothVariants ==
    \A i \in DOMAIN calls :
        Saved(i) => HasTopStrip(i) /\ HasBottomStripAfter(i, 3)

\* C12 as amended: the standardized variant draws the top strip and a
\* bottom strip of three boxes; the partial variant draws one box only, the
\* bottom-left box of a third of the image width, and no box at the image
\* top.
C12_TopStripInStandardizedOnly ==
    \A i \in DOMAIN calls :
        Saved(i) =>
            IF calls[i].call.variant = "standardized"
            THEN HasTopStrip(i) /\ HasBottomStripAfter(i, 3)
            ELSE /\ HasBottomStripAfter(i, 0)
                 /\ \A k \in DOMAIN BoxesOf(i) : BoxesOf(i)[k].rect[2] > 0

\* Both variants have saved an output.
C12_Witness ==
    /\ \E i \in DOMAIN calls : Saved(i) /\ calls[i].call.variant = "standardized"
    /\ \E i \in DOMAIN calls : Saved(i) /\ calls[i].call.variant = "partial"


(***************************************************************************)
(* Claims about the file name as a key, checked under SpecRender.          *)
(***************************************************************************)
SameFolder(i, j) == calls[i].call.output_folder = calls[j].call.output_folder

\* The text has an underscore between two of the pieces the keys are made of.
Pieces == {"a", "b", "c", "x", "y"}
HasUnderscore(text) == \E u \in Pieces, v \in Pieces : text = u \o "_" \o v

UnderscoreFree(i) ==
    \A text \in {calls[i].call.glocation, calls[i].call.component,
                 calls[i].call.defect_line1, calls[i].call.defect_line2} :
        ~HasUnderscore(text)

\* The later call whose picture replaced the file of call i, 0 when the
\* file is still the one call i saved.
OverwrittenBy(i) == IF files[PathOf(i)].n = i THEN 0 ELSE files[PathOf(i)].n

\* C13 as stated: within one output folder two records get the same file
\* name only if they agree on all five fields, so a file is overwritten only
\* by a row carrying the identical five-field key.
C13_SameNameOnlyForSameKey ==
    /\ \A i \in DOMAIN calls, j \in DOMAIN calls :
          (Saved(i) /\ Saved(j) /\ SameFolder(i, j) /\ PathOf(i) = PathOf(j))
              => KeyOf(calls[i].call) = KeyOf(calls[j].call)
    /\ \A i \in DOMAIN calls :
          (Saved(i) /\ OverwrittenBy(i) # 0) => SameKey(i, OverwrittenBy(i))

\* C13 as amended: within one output folder two records that agree on the
\* five fields get the same file name; two records with the same file name
\* have the same identifier, and the same five fields when no text field of
\* either holds an underscore; a file is overwritten only by a later row
\* with the same file name, which has the same identifier but, with
\* underscores in the text fields, not always the same key.
C13_SameNameForSameJoinedFields ==
    /\ \A i \in DOMAIN calls, j \in DOMAIN calls :
          (Saved(i) /\ Saved(j) /\ SameFolder(i, j)) =>
              /\ KeyOf(calls[i].call) = KeyOf(calls[j].call) => PathOf(i) = PathOf(j)
              /\ PathOf(i) = PathOf(j) => calls[i].call.idd = calls[j].call.idd
              /\ (PathOf(i) = PathOf(j) /\ UnderscoreFree(i) /\ UnderscoreFree(j))
                    => KeyOf(calls[i].call) = KeyOf(calls[j].call)
    /\ \A i \in DOMAIN calls :
          (Saved(i) /\ OverwrittenBy(i) # 0) =>
              /\ OverwrittenBy(i) \in DOMAIN calls
              /\ OverwrittenBy(i) > i
              /\ Saved(OverwrittenBy(i))
              /\ PathOf(OverwrittenBy(i)) = PathOf(i)
              /\ calls[OverwrittenBy(i)].call.idd = calls[i].call.idd

\* Two rows with different keys saved to one folder under the same file
\* name: the second has replaced the file of the first.
C13_Witness ==
    /\ Len(calls) = 2
    /\ Saved(1) /\ Saved(2)
    /\ SameFolder(1, 2)
    /\ KeyOf(calls[1].call) # KeyOf(calls[2].call)
    /\ PathOf(1) = PathOf(2)
    /\ OverwrittenBy(1) = 2

====
